---- MODULE Spec2Model ----
(***************************************************************************)
(* A model of the anemometer repository: the client wind rose              *)
(* (src/client/windrose.js: update, preload, #update, #animate) and the    *)
(* server (src/server/anemometer.js: processLine, publishHistory).         *)
(*                                                                         *)
(* Numbers.  Directions are whole degrees, speeds whole units, timestamps  *)
(* whole milliseconds.  The rose's arc width 360/numarcs is kept as the    *)
(* pair (360, numarcs), so Math.round(dir / arcwidth) is computed exactly  *)
(* as floor(dir*numarcs/360 + 1/2).  The band boundaries used are even, so *)
(* that the band midpoints the decoder reconstructs are whole numbers, and *)
(* numarcs divides 180, so that the arc midpoints are whole degrees.       *)
(* IEEE NaN is the value NaN below; every comparison with it is false and  *)
(* every sum with it is NaN, as in JavaScript.                             *)
(***************************************************************************)
EXTENDS Integers, Sequences, FiniteSets, TLC

VARIABLES
    q,          \* WindRose.q: the queue of readings, oldest first
    rose,       \* WindRose.rose: arc -> sequence of bucket counts, one per band
    rose0,      \* WindRose.rose0.count: the zero-speed bucket
    bands,      \* WindRose.bands: upper bound of each speed band
    freqsteps,  \* WindRose.#freqsteps: number of scale rings drawn (-1: undefined)
    preloading, \* WindRose.#preloading
    timers,     \* the pending setTimeout callbacks of preload
    frames,     \* the pending requestAnimationFrame callbacks
    options,    \* WindRose.options
    now,        \* Date.now()
    calls,      \* number of update()/preload() calls and clock ticks so far
    last,       \* the operation that ran last, and how it ended
    inserted,   \* every reading #update was asked to insert
    history,    \* server: the history log
    req,        \* server: the history request being answered
    msg,        \* server: the response of publishHistory (<<>>: none yet)
    historysize,        \* server: --history-size (0: no history)
    flag_publishalways, \* server: --all
    minfrequency,       \* server: --min-frequency, ms
    maxfrequency,       \* server: --max-frequency, ms
    lastpublish,        \* server: Date.now() at the last publish (0: none)
    lasthistorysave,    \* server: the time savehistory() is measured from
    published,          \* server: speed and dir of the message published last
    saves               \* server: the times at which savehistory() ran

vars == <<q, rose, rose0, bands, freqsteps, preloading, timers, frames, options,
          now, calls, last, inserted, history, req, msg, historysize,
          flag_publishalways, minfrequency, maxfrequency, lastpublish,
          lasthistorysave, published, saves>>
aggVars == <<q, rose, rose0, freqsteps>>
argVars == <<historysize, flag_publishalways, minfrequency, maxfrequency>>
lineVars == <<argVars, lastpublish, lasthistorysave, published, saves>>
serverVars == <<history, req, msg, lineVars>>

(***************************************************************************)
(* Bounds of the model                                                     *)
(***************************************************************************)
MaxCalls == 3       \* update()/preload() calls in one run
MaxLog == 3         \* length of the server's history log

(***************************************************************************)
(* Program constants                                                       *)
(***************************************************************************)
MAXSPEED == 200
\* 1000000000000 in the source (seconds below it, milliseconds above),
\* scaled to 1000000 to fit the checker's integers.  As in the source the
\* threshold is far above the factor 1000: a small seconds value w still has
\* 1000*w below the threshold.
MsThreshold == 1000000
\* the factor update() scales a timestamp in seconds by
MsPerSecond == 1000
\* 500 in the source: readings applied per scheduled task.  Scaled to 2 so
\* that a payload of three readings spans two tasks.
ChunkReadings == 2
FreqStepDefault == 5
FreqMaxDefault == 100
FreqMinDefault == 0
ArcDefault == 20
LagDefault == 4000
ServerStep == 1000

NaN == 0 - 1000000

(***************************************************************************)
(* JavaScript arithmetic                                                   *)
(***************************************************************************)
IsNum(x) == x # NaN
Lt(a, b) == IsNum(a) /\ IsNum(b) /\ a < b
Gt(a, b) == IsNum(a) /\ IsNum(b) /\ a > b
Ge(a, b) == IsNum(a) /\ IsNum(b) /\ a >= b
EqJs(a, b) == IsNum(a) /\ IsNum(b) /\ a = b
\* a != b
NeJs(a, b) == ~IsNum(a) \/ ~IsNum(b) \/ a # b
\* !x for a number, or for undefined (NaN here)
Falsy(x) == ~IsNum(x) \/ x = 0
Add(a, b) == IF IsNum(a) /\ IsNum(b) THEN a + b ELSE NaN
Sub(a, b) == IF IsNum(a) /\ IsNum(b) THEN a - b ELSE NaN
Min2(a, b) == IF a < b THEN a ELSE b
Max2(a, b) == IF a > b THEN a ELSE b
\* a % m of JavaScript: the remainder has the sign of the dividend
JsRem(a, m) == IF a >= 0 THEN a % m ELSE 0 - ((0 - a) % m)
\* Math.round(n / d) for d > 0: the nearest integer, halves rounded up
MathRound(n, d) == (2 * n + d) \div (2 * d)
\* Math.ceil(n / d) for d > 0
MathCeil(n, d) == 0 - ((0 - n) \div d)
\* Math.max(0, speed)
MathMax0(speed) == IF ~IsNum(speed) THEN NaN ELSE Max2(0, speed)

RECURSIVE SumSeq(_)
SumSeq(s) == IF s = <<>> THEN 0 ELSE Head(s) + SumSeq(Tail(s))

RECURSIVE SortedSeq(_)
\* the members of a finite set of numbers in increasing order
SortedSeq(S) ==
    IF S = {} THEN <<>>
    ELSE LET m == CHOOSE x \in S : \A y \in S : x <= y
         IN <<m>> \o SortedSeq(S \ {m})

(***************************************************************************)
(* Construction: the options and the band boundaries                       *)
(***************************************************************************)
\* variant: the quotient rounded down
NumArcsFloor(arc) == 360 \div (IF arc > 0 THEN arc ELSE ArcDefault)

\* constructor: numarcs = Math.ceil(360 / options.arc)
NumArcsOf(arc) == MathCeil(360, IF arc > 0 THEN arc ELSE ArcDefault)
numarcs == NumArcsOf(options.arc)

\* #loadBands: every i in 1..MAXSPEED-1 with a --speed<i> style, then MAXSPEED
LoadBands(styles) == SortedSeq({i \in 1..(MAXSPEED - 1) : i \in styles}) \o <<MAXSPEED>>

\* bands[band] for a 0-based band; undefined (NaN in arithmetic) past the end
BandAt(bs, band) == IF band >= 0 /\ band < Len(bs) THEN bs[band + 1] ELSE NaN

(***************************************************************************)
(* #update: classification                                                 *)
(***************************************************************************)
\* line 251: speed == 0 ? 0 : ((dir % 360) + 360) % 360
NormDir(dir, speed) ==
    IF EqJs(speed, 0) THEN 0 ELSE JsRem(JsRem(dir, 360) + 360, 360)

\* variant: an arc index of numarcs or more is not wrapped
ArcOfNoWrap(dir, n) ==
    LET arc == MathRound(dir * n, 360)
    IN IF arc < 0 THEN arc + n ELSE arc

\* lines 316-321 and 282-287: Math.round(dir / options.arc), wrapped once
ArcOf(dir, n) ==
    LET arc == MathRound(dir * n, 360)
    IN IF arc < 0 THEN arc + n ELSE IF arc >= n THEN arc - n ELSE arc

RECURSIVE BandFrom(_, _, _)
\* lines 310-315: the first band with speed < bands[band], else bands.length
BandFrom(speed, bs, band) ==
    IF band < Len(bs) /\ ~Lt(speed, BandAt(bs, band))
    THEN BandFrom(speed, bs, band + 1) ELSE band
BandOf(speed, bs) == BandFrom(speed, bs, 0)

RECURSIVE DelBandFromBelow(_, _, _)
\* variant: on eviction a boundary speed stays in the band below
DelBandFromBelow(speed, bs, band) ==
    IF band < Len(bs) /\ ~Ge(BandAt(bs, band), speed)
    THEN DelBandFromBelow(speed, bs, band + 1) ELSE band

RECURSIVE DelBandFrom(_, _, _)
\* lines 288-292: the first band with bands[band] > speed, else bands.length
DelBandFrom(speed, bs, band) ==
    IF band < Len(bs) /\ ~Gt(BandAt(bs, band), speed)
    THEN DelBandFrom(speed, bs, band + 1) ELSE band
DelBandOf(speed, bs) == DelBandFrom(speed, bs, 0)

(***************************************************************************)
(* #update: the queue                                                      *)
(***************************************************************************)
\* line 265
\* variant: no queued reading is ever recognised as the same reading
NeverSameReading(r, m) == FALSE

SameReading(r, m) ==
    EqJs(r.when, m.when) /\ EqJs(r.speed, m.speed) /\ EqJs(r.dir, m.dir)

RECURSIVE ScanBack(_, _, _)
\* lines 263-272: scan from index i (0-based) towards the head; the result is
\* -1 for a duplicate, else the index the message is spliced in at
ScanBack(qq, m, i) ==
    IF i < 0 THEN -2
    ELSE IF SameReading(qq[i + 1], m) THEN -1
    ELSE IF i = 0 \/ Lt(qq[i].when, m.when) THEN i
    ELSE ScanBack(qq, m, i - 1)

\* variant: a reading that is no duplicate is always pushed at the tail
InsertPosAppend(qq, m) ==
    IF \E i \in DOMAIN qq : SameReading(qq[i], m) THEN -1 ELSE Len(qq)

\* lines 260-273: -1 for a duplicate, else the 0-based index of the new entry
InsertPos(qq, m) ==
    IF Len(qq) = 0 \/ Lt(qq[Len(qq)].when, m.when) THEN Len(qq)
    ELSE ScanBack(qq, m, Len(qq) - 1)

\* q.splice(i, 0, m)
Splice(qq, i, m) == SubSeq(qq, 1, i) \o <<m>> \o SubSeq(qq, i + 1, Len(qq))

(***************************************************************************)
(* #update: eviction, counting, frequency check                            *)
(*                                                                         *)
(* The aggregator state is the record [q, rose, rose0, freqsteps, result]; *)
(* result is "ok", "dup" (duplicate discarded), "TypeError" (a property of *)
(* undefined was read) or "Error" (the maxfreq check threw).  A throw      *)
(* leaves the fields as the statements before it left them.  The buckets'  *)
(* oldest/newest/next references are written but never read for a          *)
(* decision, and are left out.                                             *)
(***************************************************************************)
\* variant: eviction starts when the queue has reached the cap
CountExceededAtCap(qq, opts) ==
    opts.max_data_count # 0 /\ Len(qq) >= opts.max_data_count

\* line 276, first disjunct
CountExceeded(qq, opts) ==
    opts.max_data_count # 0 /\ Len(qq) > opts.max_data_count

\* line 276, second disjunct (evaluated with q[0] defined)
AgeExceeded(qq, opts, t) ==
    opts.max_data_age # 0 /\ Gt(Sub(t, qq[1].when), opts.max_data_age)

\* rose[arc][band].count += d
BumpBucket(rs, arc, band, d) ==
    [rs EXCEPT ![arc] = [@ EXCEPT ![band + 1] = @ + d]]

RECURSIVE Expire(_, _, _, _, _)
\* lines 276-303: while a cap is exceeded, shift the oldest entry out and
\* decrement the bucket it classifies into
Expire(s, opts, bs, n, t) ==
    IF ~CountExceeded(s.q, opts) /\ opts.max_data_age = 0 THEN s
    ELSE IF ~CountExceeded(s.q, opts) /\ Len(s.q) = 0
    THEN [s EXCEPT !.result = "TypeError"]          \* this.q[0].when, q empty
    ELSE IF ~CountExceeded(s.q, opts) /\ ~AgeExceeded(s.q, opts, t) THEN s
    ELSE
        LET delmsg == Head(s.q)
            s1 == [s EXCEPT !.q = Tail(s.q)]
        IN IF EqJs(delmsg.speed, 0)
           THEN Expire([s1 EXCEPT !.rose0 = @ - 1], opts, bs, n, t)
           ELSE LET arc == ArcOf(delmsg.dir, n)
                    band == DelBandOf(delmsg.speed, bs)
                IN IF band >= Len(s.rose[arc])
                   THEN [s1 EXCEPT !.result = "TypeError"]  \* o undefined: o.count--
                   ELSE Expire([s1 EXCEPT !.rose = BumpBucket(@, arc, band, -1)],
                               opts, bs, n, t)

RECURSIVE Zeros(_)
Zeros(k) == IF k <= 0 THEN <<>> ELSE <<0>> \o Zeros(k - 1)

\* lines 323-325: while (band >= rose[arc].length) rose[arc].push({count:0})
GrowArc(counts, band) ==
    IF band >= Len(counts) THEN counts \o Zeros(band + 1 - Len(counts)) ELSE counts

\* lines 305-327: the bucket o the new reading is counted in, as <<arc, band>>;
\* Rose0 stands for rose0
Rose0 == <<-1, -1>>
BucketOf(m, bs, n) ==
    IF EqJs(m.speed, 0) THEN Rose0
    ELSE <<ArcOf(m.dir, n), BandOf(m.speed, bs)>>

\* lines 305-328: count the new reading in its bucket
CountIn(s, m, bs, n) ==
    LET o == BucketOf(m, bs, n)
    IN IF o = Rose0 THEN [s EXCEPT !.rose0 = @ + 1]
       ELSE [s EXCEPT !.rose = BumpBucket([@ EXCEPT ![o[1]] = GrowArc(@, o[2])],
                                          o[1], o[2], 1)]

\* the largest of rose0.count and the arcs' summed counts (lines 338-349,
\* times total)
MaxArcCount(s, n) ==
    LET sums == {s.rose0} \cup {SumSeq(s.rose[i]) : i \in 0..(n - 1)}
    IN CHOOSE x \in sums : \A y \in sums : y <= x

\* line 357: maxfreq > 1, as a comparison of counts (c / total > 1)
FreqOverOne(s, n) == MaxArcCount(s, n) > Len(s.q)

\* lines 368-369: Math.ceil(clamp(maxfreq, freq_min, freq_max) / (freq_step / 100)),
\* with maxfreq = c / total kept as a fraction
FreqSteps(c, total, opts) ==
    LET overMax == c > opts.freq_max * total       \* maxfreq > freq_max
        num == IF overMax THEN opts.freq_max ELSE c
        den == IF overMax THEN 1 ELSE total
        underMin == num < opts.freq_min * den       \* ... < freq_min
        num2 == IF underMin THEN opts.freq_min ELSE num
        den2 == IF underMin THEN 1 ELSE den
    IN MathCeil(num2 * 100, den2 * opts.freq_step)

\* lines 337-390: the frequency check and the scale state
Rescale(s, opts, n) ==
    IF FreqOverOne(s, n) THEN [s EXCEPT !.result = "Error"]
    ELSE [s EXCEPT !.freqsteps = FreqSteps(MaxArcCount(s, n), Len(s.q), opts)]

\* lines 247-442: #update(dir, speed, when) at wall-clock time t
UpdateCore(s0, dir, speed, when, opts, bs, n, t) ==
    LET sp == MathMax0(speed)
        m == [dir |-> NormDir(dir, sp), speed |-> sp, when |-> when]
        pos == InsertPos(s0.q, m)
        s == [s0 EXCEPT !.result = "ok"]
    IN IF pos < 0 THEN [s EXCEPT !.result = "dup"]
       ELSE LET s1 == Expire([s EXCEPT !.q = Splice(@, pos, m)], opts, bs, n, t)
            IN IF s1.result # "ok" THEN s1
               ELSE Rescale(CountIn(s1, m, bs, n), opts, n)

\* the reading #update stores for its arguments
Normalized(dir, speed, when) ==
    [dir |-> NormDir(dir, MathMax0(speed)), speed |-> MathMax0(speed), when |-> when]

(***************************************************************************)
(* preload: decoding a payload                                             *)
(*                                                                         *)
(* A payload is [format, hasRecords, when, step, records]; hasRecords is   *)
(* FALSE when data.records is undefined.  A simple record is the triple    *)
(* <<dir, speed, deltaMs>> (three consecutive array elements in the        *)
(* source); a delta record is <<"num", v>> for a bare number v and         *)
(* <<"when", d>> for the object {when: d}.                                 *)
(***************************************************************************)
\* (x + y) / 2; the boundaries used are even
Half(x) == IF IsNum(x) THEN x \div 2 ELSE NaN

\* line 164: (arc + 0.5) * options.arc, with options.arc = 360 / n
ArcMidpoint(arc, n) == ((2 * arc + 1) * 180) \div n

\* line 165
BandMidpoint(band, bs) ==
    Half(Add(BandAt(bs, band), IF band = 0 THEN 0 ELSE BandAt(bs, band - 1)))

RECURSIVE DecodeFromNoNudge(_, _, _, _, _, _, _, _)
\* variant: a {when: d} record is skipped without moving the clock
DecodeFromNoNudge(records, i, target, when, lastwhen, step, bs, n) ==
    IF i > Len(records) THEN <<>>
    ELSE LET v == records[i]
         IN IF v[1] = "num"
            THEN LET tg == Add(target, v[2])
                     band == tg \div n
                     arc == tg - band * n
                     dir == IF Ge(tg, 0) THEN ArcMidpoint(arc, n) ELSE 0
                     speed == IF Ge(tg, 0) THEN BandMidpoint(band, bs) ELSE 0
                 IN <<<<dir, speed, Sub(when, lastwhen)>>>>
                    \o DecodeFromNoNudge(records, i + 1, tg, Add(when, step), when,
                                         step, bs, n)
            ELSE DecodeFromNoNudge(records, i + 1, target, when, lastwhen, step, bs, n)

RECURSIVE DecodeFrom(_, _, _, _, _, _, _, _)
\* lines 156-175: the triples <<dir, speed, when - lastwhen>> of the records
\* from index i (1-based) on
DecodeFrom(records, i, target, when, lastwhen, step, bs, n) ==
    IF i > Len(records) THEN <<>>
    ELSE LET v == records[i]
         IN IF v[1] = "num"
            THEN LET tg == Add(target, v[2])
                     band == tg \div n                  \* Math.floor(target / numarcs)
                     arc == tg - band * n
                     dir == IF Ge(tg, 0) THEN ArcMidpoint(arc, n) ELSE 0
                     speed == IF Ge(tg, 0) THEN BandMidpoint(band, bs) ELSE 0
                 IN <<<<dir, speed, Sub(when, lastwhen)>>>>
                    \o DecodeFrom(records, i + 1, tg, Add(when, step), when, step, bs, n)
            ELSE IF ~Falsy(v[2])                        \* else if (v.when)
            THEN DecodeFrom(records, i + 1, target, Add(when, v[2]), lastwhen, step,
                            bs, n)
            ELSE DecodeFrom(records, i + 1, target, when, lastwhen, step, bs, n)

\* lines 148-179: the array a that the scheduled tasks read
DecodeDelta(data, bs, n) ==
    DecodeFrom(data.records, 1, 0, data.when, data.when, data.step, bs, n)

(***************************************************************************)
(* preload: the scheduled tasks                                            *)
(***************************************************************************)
RECURSIVE ApplyChunk(_, _, _, _, _, _, _, _, _)
\* lines 185-204: #update for the triples off .. end-1 (0-based) of a, until
\* one throws.  seen collects the readings #update was called with, called
\* counts the calls.
ApplyChunk(s, a, when, off, end, opts, bs, n, t) ==
    IF off >= end THEN [state |-> s, when |-> when, seen |-> {}, called |-> 0]
    ELSE LET rec == a[off + 1]
             w == Add(when, rec[3])
             m == Normalized(rec[1], rec[2], w)
         IN \* s1: the state this call of #update leaves
            CHOOSE r \in
               { IF s1.result \in {"TypeError", "Error"}
                 THEN [state |-> s1, when |-> w, seen |-> {m}, called |-> 1]
                 ELSE [ApplyChunk(s1, a, w, off + 1, end, opts, bs, n, t)
                          EXCEPT !.seen = @ \cup {m}, !.called = @ + 1] :
                 s1 \in {UpdateCore(s, rec[1], rec[2], w, opts, bs, n, t)} } : TRUE

\* the queue and every bucket's count, as compared between two runs; a bucket
\* that was never created counts 0
Histogram(s) ==
    [q |-> s.q, rose0 |-> s.rose0,
     rose |-> [arc \in DOMAIN s.rose |->
                 [band \in 0..Len(bands) |->
                     IF band < Len(s.rose[arc]) THEN s.rose[arc][band + 1] ELSE 0]]]

AggState ==
    [q |-> q, rose |-> rose, rose0 |-> rose0, freqsteps |-> freqsteps, result |-> "ok"]

\* every reading of a inserted in one uninterrupted pass, from the current state
OnePass(a, start) ==
    ApplyChunk(AggState, a, start, 0, Len(a), options, bands, numarcs, now).state

\* The run a chunked preload is compared with.  A task carries, from its first
\* chunk on, the state that inserting its whole payload in one pass at that
\* point gives (expect); the chunks other preloads' tasks apply later are
\* applied to it as well, so that it differs from the rose only by what ran
\* between the chunks and was not a task of a preload.
Mirror(tasks, a, when, off, end) ==
    [j \in DOMAIN tasks |->
        IF tasks[j].expect = <<>> THEN tasks[j]
        ELSE [tasks[j] EXCEPT !.expect =
                <<ApplyChunk(tasks[j].expect[1], a, when, off, end,
                             options, bands, numarcs, now).state>>]]

\* last: the operation, how it ended ("ok", "dup", "dropped", "scheduled",
\* "more", "done", "TypeError", "Error"), the reading an accepted update()
\* passed to #update, and for a preload its payload (for a task the offset
\* it started at and the number of #update calls it made), for a finished one the
\* result of the one-pass run it is compared with (<<>>: none)
NoArg == [dir |-> 0, speed |-> 0, when |-> 0]
Last(op, result, arg, data, expect) ==
    [op |-> op, result |-> result, arg |-> arg, data |-> data, expect |-> expect]

SetAgg(s) ==
    /\ q' = s.q
    /\ rose' = s.rose
    /\ rose0' = s.rose0
    /\ freqsteps' = s.freqsteps

(***************************************************************************)
(* The client's operations                                                 *)
(***************************************************************************)
\* variant: a timestamp in seconds is stored as it is
WhenOfUnscaled(when) == IF when = 0 THEN now ELSE when

\* lines 234-238: a missing timestamp (0 here) is now, seconds become ms
WhenOf(when) ==
    IF when = 0 THEN now ELSE IF when < MsThreshold THEN when * MsPerSecond ELSE when

\* lines 225-245: update(dir, speed, when)
Update(dir, speed, when) ==
    /\ calls < MaxCalls
    /\ calls' = calls + 1
    /\ IF preloading
       THEN /\ UNCHANGED <<aggVars, frames, inserted>>
            /\ last' = Last("update", "dropped", NoArg, <<>>, <<>>)
       ELSE LET s == UpdateCore(AggState, dir, speed, WhenOf(when),
                                options, bands, numarcs, now)
                thrown == s.result \in {"TypeError", "Error"}
            IN /\ SetAgg(s)
               /\ frames' = IF thrown THEN frames ELSE frames + 1
               /\ inserted' = inserted \cup {Normalized(dir, speed, WhenOf(when))}
               /\ last' = Last("update", s.result,
                               Normalized(dir, speed, WhenOf(when)), <<>>, <<>>)
    /\ UNCHANGED <<bands, preloading, timers, options, now, serverVars>>

\* lines 143-217: preload(data)
Preload(data) ==
    /\ calls < MaxCalls
    /\ calls' = calls + 1
    /\ IF data.format = "delta" /\ ~data.hasRecords
       THEN \* records.length of undefined: caught, flag cleared, rethrown
            /\ preloading' = FALSE
            /\ timers' = timers
            /\ last' = Last("preload", "TypeError", NoArg, <<data>>, <<>>)
       ELSE LET a == IF data.format = "delta"
                     THEN DecodeDelta(data, bands, numarcs)
                     ELSE data.records
                task == [a |-> a, hasA |-> data.hasRecords, when |-> data.when,
                         off |-> 0, expect |-> <<>>]
            IN /\ preloading' = TRUE
               /\ timers' = Append(timers, task)
               /\ last' = Last("preload", "scheduled", NoArg, <<data>>, <<>>)
    /\ UNCHANGED <<aggVars, bands, frames, options, now, inserted, serverVars>>

RemoveAt(s, i) == SubSeq(s, 1, i - 1) \o SubSeq(s, i + 1, Len(s))

\* variant: a task applies all that is left of its payload
ChunkEndWhole(a, off) == Len(a)

\* line 184: end = Math.min(a.length, off + 500 * 3), counted in readings
ChunkEnd(a, off) == Min2(Len(a), off + ChunkReadings)

\* lines 182-211: one scheduled task f(when, off) of a preload.  Each preload
\* has at most one task pending; tasks of different preloads may run in either
\* order (nested timeouts are clamped by the host), so any pending one runs.
RunTimer(i) ==
    LET tk == timers[i]
        rest == RemoveAt(timers, i)
    IN /\ IF ~tk.hasA
          THEN \* a.length of undefined: the task dies
               /\ UNCHANGED <<aggVars, preloading, inserted>>
               /\ timers' = rest
               /\ last' = Last("timer", "TypeError", NoArg, <<>>, <<>>)
          ELSE LET end == ChunkEnd(tk.a, tk.off)
                   r == ApplyChunk(AggState, tk.a, tk.when, tk.off, end,
                                   options, bands, numarcs, now)
                   thrown == r.state.result \in {"TypeError", "Error"}
                   ran == <<[off |-> tk.off, called |-> r.called]>>
                   expect == IF tk.off = 0 THEN <<OnePass(tk.a, tk.when)>>
                             ELSE tk.expect
                   others == Mirror(rest, tk.a, tk.when, tk.off, end)
               IN /\ SetAgg(r.state)
                  /\ inserted' = inserted \cup r.seen
                  /\ IF thrown
                     THEN /\ timers' = others
                          /\ UNCHANGED preloading
                          /\ last' = Last("timer", r.state.result, NoArg, ran, <<>>)
                     ELSE IF end = Len(tk.a)
                     THEN /\ timers' = others
                          /\ preloading' = FALSE
                          /\ last' = Last("timer", "done", NoArg, ran, expect)
                     ELSE /\ timers' = Append(others,
                                              [tk EXCEPT !.when = r.when, !.off = end,
                                                         !.expect = expect])
                          /\ UNCHANGED preloading
                          /\ last' = Last("timer", "more", NoArg, ran, <<>>)
       /\ UNCHANGED <<bands, frames, options, now, calls, serverVars>>

\* lines 510-516: the index (from 1) of the sample p0, the last reading but
\* the newest whose timestamp is not after the lagged now; 0 if there is none
SampleAt(lagged) ==
    LET found == {i \in 1..(Len(q) - 1) : Ge(lagged, q[i].when)}
    IN IF found = {} THEN 0 ELSE CHOOSE i \in found : \A j \in found : j <= i

\* lines 506-559: #animate(), a pending animation callback runs.  It asks for
\* the next frame only after it has drawn (line 553).
Animate ==
    LET i == SampleAt(now - options.lag)
    IN /\ frames > 0
       /\ IF i > 0
          THEN /\ frames' = frames
               /\ last' = Last("animate", "drawn", q[i], <<>>, <<>>)
          ELSE /\ frames' = frames - 1
               /\ last' = Last("animate", "idle", NoArg, <<>>, <<>>)
       /\ UNCHANGED <<aggVars, bands, preloading, timers, options, now, calls,
                      inserted, serverVars>>

\* the wall clock advances
Tick ==
    /\ calls < MaxCalls
    /\ calls' = calls + 1
    /\ now' = now + 1
    /\ last' = Last("tick", "ok", NoArg, <<>>, <<>>)
    /\ UNCHANGED <<aggVars, bands, preloading, timers, frames, options,
                   inserted, serverVars>>

(***************************************************************************)
(* The server: publishHistory(req)                                         *)
(*                                                                         *)
(* A request is [format, numarcs, bands, when, id, nonce]; a field that is *)
(* absent is NaN (undefined is falsy, and NaN in arithmetic).  The log is  *)
(* a sequence of [dir, speed, when].  The response is [format, when, step, *)
(* records, id, nonce, hasRecords], with when, id and nonce NaN when the   *)
(* code never sets them.                                                   *)
(***************************************************************************)
\* Math.round((a - b) / step)
RoundSteps(a, b, step) ==
    IF IsNum(a) /\ IsNum(b) THEN MathRound(a - b, step) ELSE NaN

\* lines 265-270: Math.round(dir / arcsize); the two corrections add and
\* subtract req.numarccs, which is undefined
EncArc(dir, n) ==
    LET arc == MathRound(dir * n, 360)
    IN IF arc < 0 THEN NaN ELSE IF arc > n THEN NaN ELSE arc

RECURSIVE EncBandFrom(_, _, _)
\* line 272: for (band = 0; band < bands.length && speed >= bands[band]; band++)
EncBandFrom(speed, bs, band) ==
    IF band < Len(bs) /\ Ge(speed, BandAt(bs, band))
    THEN EncBandFrom(speed, bs, band + 1) ELSE band
EncBand(speed, bs) == EncBandFrom(speed, bs, 0)

\* lines 261-275: the bucket id of a reading
EncTarget(dir, speed, r) ==
    IF EqJs(speed, 0) THEN -1
    ELSE Add(EncBand(speed, r.bands) * r.numarcs, EncArc(dir, r.numarcs))

RECURSIVE EncodeDeltaFromStale(_, _, _, _, _, _, _)
\* variant: last is not advanced to the target of the reading just encoded
EncodeDeltaFromStale(log, i, r, start, guesswhen, lst, mwhen) ==
    IF i > Len(log) THEN [when |-> mwhen, records |-> <<>>]
    ELSE LET h == log[i]
             begin == Falsy(start) /\ (Falsy(r.when) \/ h.when > r.when)
             start1 == IF begin THEN h.when ELSE start
             guess1 == IF begin THEN h.when ELSE guesswhen
             mwhen1 == IF begin THEN h.when ELSE mwhen
             adjust == NeJs(RoundSteps(h.when, start1, ServerStep),
                            RoundSteps(guess1, start1, ServerStep))
             start2 == IF adjust THEN h.when ELSE start1
             guess2 == IF adjust THEN h.when ELSE guess1
             target == EncTarget(h.dir, h.speed, r)
             rest == EncodeDeltaFromStale(log, i + 1, r, start2,
                                          Add(guess2, ServerStep), lst, mwhen1)
         IN [rest EXCEPT !.records =
                (IF adjust THEN << <<"when", Sub(h.when, guess1)>> >> ELSE <<>>)
                \o << <<"num", Sub(target, lst)>> >> \o @]

RECURSIVE EncodeDeltaFromNoResync(_, _, _, _, _, _, _)
\* variant: after a {when: d} record the guess is not set to the actual time
EncodeDeltaFromNoResync(log, i, r, start, guesswhen, lst, mwhen) ==
    IF i > Len(log) THEN [when |-> mwhen, records |-> <<>>]
    ELSE LET h == log[i]
             begin == Falsy(start) /\ (Falsy(r.when) \/ h.when > r.when)
             start1 == IF begin THEN h.when ELSE start
             guess1 == IF begin THEN h.when ELSE guesswhen
             mwhen1 == IF begin THEN h.when ELSE mwhen
             adjust == NeJs(RoundSteps(h.when, start1, ServerStep),
                            RoundSteps(guess1, start1, ServerStep))
             target == EncTarget(h.dir, h.speed, r)
             rest == EncodeDeltaFromNoResync(log, i + 1, r, start1,
                                             Add(guess1, ServerStep), target, mwhen1)
         IN [rest EXCEPT !.records =
                (IF adjust THEN << <<"when", Sub(h.when, guess1)>> >> ELSE <<>>)
                \o << <<"num", Sub(target, lst)>> >> \o @]

RECURSIVE EncodeDeltaFrom(_, _, _, _, _, _, _)
\* lines 246-279: the loop from log index i on; the result is the payload's
\* when (NaN while msg.when is not set) and the records
EncodeDeltaFrom(log, i, r, start, guesswhen, lst, mwhen) ==
    IF i > Len(log) THEN [when |-> mwhen, records |-> <<>>]
    ELSE LET h == log[i]
             begin == Falsy(start) /\ (Falsy(r.when) \/ h.when > r.when)
             start1 == IF begin THEN h.when ELSE start
             guess1 == IF begin THEN h.when ELSE guesswhen
             mwhen1 == IF begin THEN h.when ELSE mwhen
             adjust == NeJs(RoundSteps(h.when, start1, ServerStep),
                            RoundSteps(guess1, start1, ServerStep))
             start2 == IF adjust THEN h.when ELSE start1
             guess2 == IF adjust THEN h.when ELSE guess1
             target == EncTarget(h.dir, h.speed, r)
             rest == EncodeDeltaFrom(log, i + 1, r, start2, Add(guess2, ServerStep),
                                     target, mwhen1)
         IN [rest EXCEPT !.records =
                (IF adjust THEN << <<"when", Sub(h.when, guess1)>> >> ELSE <<>>)
                \o << <<"num", Sub(target, lst)>> >> \o @]

RECURSIVE EncodeSimpleFrom(_, _, _, _, _)
\* lines 292-304: the loop from log index i on
EncodeSimpleFrom(log, i, r, lst, mwhen) ==
    IF i > Len(log) THEN [when |-> mwhen, records |-> <<>>]
    ELSE LET h == log[i]
             begin == Falsy(lst) /\ (Falsy(r.when) \/ h.when > r.when)
             lst1 == IF begin THEN h.when ELSE lst
             mwhen1 == IF begin THEN h.when ELSE mwhen
             rest == EncodeSimpleFrom(log, i + 1, r, h.when, mwhen1)
         IN [rest EXCEPT !.records = << <<h.dir, h.speed, Sub(h.when, lst1)>> >> \o @]

\* line 238
WantsDelta(r) == r.format = "delta" /\ Gt(r.numarcs, 0) /\ Len(r.bands) > 0

\* lines 281-286, 306-311: if (req.id) msg.id = req.id
Echo(x) == IF Falsy(x) THEN NaN ELSE x

\* lines 235-314: publishHistory(req), history being defined
PublishHistoryOf(log, r) ==
    IF WantsDelta(r)
    THEN LET e == EncodeDeltaFrom(log, 1, r, NaN, NaN, 0, NaN)
         IN [format |-> "delta", hasRecords |-> TRUE, when |-> e.when,
             step |-> ServerStep, records |-> e.records,
             id |-> Echo(r.id), nonce |-> Echo(r.nonce)]
    ELSE LET e == EncodeSimpleFrom(log, 1, r, NaN, NaN)
         IN [format |-> "simple", hasRecords |-> TRUE, when |-> e.when,
             step |-> NaN, records |-> e.records,
             id |-> Echo(r.id), nonce |-> Echo(r.nonce)]

\* lines 120-137: a history request arrives and is answered
PublishHistory ==
    /\ msg = <<>>
    /\ msg' = <<PublishHistoryOf(history, req)>>
    /\ last' = [last EXCEPT !.op = "publishHistory"]
    /\ UNCHANGED <<aggVars, bands, preloading, timers, frames, options, now,
                   calls, inserted, history, req, lineVars>>

\* the client preloads the response it received
PreloadResponse ==
    /\ msg # <<>>
    /\ last.op = "publishHistory"
    /\ Preload([f \in {"format", "hasRecords", "when", "step", "records"} |->
                   msg[1][f]])

\* line 206: 60*60*1000, the period of the history saves
SaveEvery == 60 * 60 * 1000
\* line 46: the period --max-frequency falls back to
MaxFrequencyFallback == 5 * 60 * 1000

\* line 193 with offset 0
LineDir(angle) == JsRem(angle + 720, 360)

\* line 196
WantsPublish(dir, speed, t) ==
    \/ flag_publishalways
    \/ NeJs(speed, published.speed)
    \/ (speed > 0 /\ NeJs(dir, published.dir))
    \/ t - lastpublish > maxfrequency

\* lines 202-205
Logged(dir, speed, t) ==
    LET pushed == Append(history, [dir |-> dir, speed |-> speed, when |-> t])
    IN IF Len(pushed) > historysize THEN Tail(pushed) ELSE pushed

\* lines 173-233: processLine(data) for a valid $WIMWV sentence in m/s that
\* arrives dt ms after the previous event.  savehistory() (lines 158-171)
\* writes the file and assigns nothing.
ProcessLine(dt, angle, speed) ==
    LET t == now + dt
        dir == LineDir(angle)
        m == [dir |-> dir, speed |-> speed, when |-> t]
    IN /\ calls < MaxCalls
       /\ calls' = calls + 1
       /\ now' = t
       /\ IF WantsPublish(dir, speed, t) /\ t - lastpublish > minfrequency
          THEN /\ IF historysize > 0
                  THEN /\ history' = Logged(dir, speed, t)
                       /\ saves' = IF t - lasthistorysave > SaveEvery
                                   THEN Append(saves, t) ELSE saves
                  ELSE UNCHANGED <<history, saves>>
               /\ published' = [speed |-> speed, dir |-> dir]
               /\ lastpublish' = t
               /\ last' = Last("processLine", "published", m, <<>>, <<>>)
          ELSE /\ UNCHANGED <<history, saves, published, lastpublish>>
               /\ last' = Last("processLine", "skipped", m, <<>>, <<>>)
       /\ UNCHANGED <<aggVars, bands, preloading, timers, frames, options,
                      inserted, req, msg, argVars, lasthistorysave>>

(***************************************************************************)
(* The rose under update() and preload()                                   *)
(***************************************************************************)
\* the styles --speed4 and --speed10 are defined
SpeedStyles == {4, 10}

\* (dir, speed) arguments: zero speed, a wrap to arc 0, a negative direction
\* with a speed above MAXSPEED
DirSpeedInputs == {<<10, 0>>, <<350, 2>>, <<-80, 250>>}
\* when arguments: missing, in seconds, in milliseconds
WhenInputs == {0, 1, MsThreshold + 1}

Simple(when, records) ==
    [format |-> "simple", hasRecords |-> TRUE, when |-> when, step |-> 0,
     records |-> records]
Payloads ==
    { Simple(MsThreshold, << <<350, 2, 0>>, <<100, 4, 1>>, <<10, 0, 1>> >>),
      [format |-> "delta", hasRecords |-> TRUE, when |-> MsThreshold + 2, step |-> 1,
       records |-> << <<"when", -1>>, <<"num", 5>> >>],
      [format |-> "none", hasRecords |-> FALSE, when |-> MsThreshold, step |-> 0,
       records |-> <<>>],
      [format |-> "delta", hasRecords |-> FALSE, when |-> MsThreshold, step |-> 1,
       records |-> <<>>] }

NoRequest ==
    [format |-> "none", numarcs |-> NaN, bands |-> <<>>, when |-> NaN,
     id |-> NaN, nonce |-> NaN]

Options(count, age, arc) ==
    [max_data_count |-> count, max_data_age |-> age, arc |-> arc,
     freq_step |-> FreqStepDefault, freq_max |-> FreqMaxDefault,
     freq_min |-> FreqMinDefault, lag |-> LagDefault]

\* the state the constructor leaves, for the options given
Constructed(opts, styles) ==
    /\ options = opts
    /\ q = <<>>
    /\ rose = [i \in 0..(NumArcsOf(opts.arc) - 1) |-> <<>>]
    /\ rose0 = 0
    /\ bands = LoadBands(styles)
    /\ freqsteps = -1
    /\ preloading = FALSE
    /\ timers = <<>>
    /\ frames = 0
    /\ calls = 0
    /\ last = Last("new", "ok", NoArg, <<>>, <<>>)
    /\ inserted = {}

\* lines 13-16, 18-65, 153-155: the server's variables once the arguments are
\* read; --max-frequency absent leaves maxfrequency 0
Started(size, all, minf, maxf) ==
    /\ historysize = size
    /\ flag_publishalways = all
    /\ minfrequency = minf
    /\ maxfrequency = maxf
    /\ lastpublish = 0
    /\ lasthistorysave = now
    /\ published = [speed |-> NaN, dir |-> NaN]
    /\ saves = <<>>

Init ==
    /\ \E count \in {0, 2}, age \in {0, 1} :
          Constructed(Options(count, age, 90), SpeedStyles)
    /\ now = MsThreshold + 2
    /\ history = <<>>
    /\ req = NoRequest
    /\ msg = <<>>
    /\ Started(MaxLog, FALSE, 0, 0)

Next ==
    \/ \E ds \in DirSpeedInputs, w \in WhenInputs : Update(ds[1], ds[2], w)
    \/ \E data \in Payloads : Preload(data)
    \/ \E i \in DOMAIN timers : RunTimer(i)
    \/ Tick

Spec == Init /\ [][Next]_vars

(***************************************************************************)
(* The history protocol: the server encodes a log, the client preloads the *)
(* response into an empty rose that has the request's numarcs and bands    *)
(***************************************************************************)
\* (dir, speed) of the logged readings: arc 0, a direction within half an arc
\* of 360 in the top band, a speed on a boundary, zero speed
LogReadings == {<<0, 2>>, <<350, 12>>, <<100, 4>>, <<200, 0>>}
\* ms between consecutive logged readings: less than a step, a step, more
LogGaps == {100, 600, 1000, 2400}
\* the server stamps a reading with Date.now(): milliseconds, above the threshold
FirstWhen == MsThreshold

RECURSIVE LogsOfLen(_)
\* the logs of k readings in timestamp order, as sequences of <<dir, speed, when>>
LogsOfLen(k) ==
    IF k = 0 THEN {<<>>}
    ELSE IF k = 1
    THEN {<<[dir |-> ds[1], speed |-> ds[2], when |-> FirstWhen]>> : ds \in LogReadings}
    ELSE {Append(l, [dir |-> x[1][1], speed |-> x[1][2],
                     when |-> l[Len(l)].when + x[2]]) :
             l \in LogsOfLen(k - 1), x \in LogReadings \X LogGaps}
Logs == UNION {LogsOfLen(k) : k \in 0..MaxLog}

InitCodec ==
    /\ Constructed(Options(0, 0, 90), SpeedStyles)
    /\ now = MsThreshold + 2
    /\ history \in Logs
    /\ req = [format |-> "delta", numarcs |-> NumArcsOf(90),
              bands |-> LoadBands(SpeedStyles), when |-> NaN, id |-> NaN,
              nonce |-> NaN]
    /\ msg = <<>>
    /\ Started(MaxLog, FALSE, 0, 0)

NextCodec ==
    \/ PublishHistory
    \/ PreloadResponse
    \/ \E i \in DOMAIN timers : RunTimer(i)

SpecCodec == InitCodec /\ [][NextCodec]_vars

(***************************************************************************)
(* Properties of the rose                                                  *)
(***************************************************************************)
RECURSIVE SumOver(_, _)
SumOver(f, S) ==
    IF S = {} THEN 0
    ELSE LET x == CHOOSE y \in S : TRUE IN f[x] + SumOver(f, S \ {x})

\* the sum of count over every (arc, band) bucket and rose0
TotalCount == rose0 + SumOver([i \in DOMAIN rose |-> SumSeq(rose[i])], DOMAIN rose)

Thrown == last.result \in {"TypeError", "Error"}

\* C1: in every state, also the one an insert that raised an error leaves
\* behind, the bucket counts (every (arc, band) bucket and rose0) sum to the
\* length of the queue.
C1_CountsSumToQueueLength == TotalCount = Len(q)

Range(s) == {s[i] : i \in DOMAIN s}

\* the number of queued readings that #update classifies into (arc, band)
InBucket(arc, band) ==
    Cardinality({i \in DOMAIN q :
        /\ ~EqJs(q[i].speed, 0)
        /\ ArcOf(q[i].dir, numarcs) = arc
        /\ BandOf(q[i].speed, bands) = band})
InZeroBucket == Cardinality({i \in DOMAIN q : EqJs(q[i].speed, 0)})

\* rose[arc][band].count, 0 for a bucket that was never created
CountAt(arc, band) == IF band < Len(rose[arc]) THEN rose[arc][band + 1] ELSE 0

CountsReflectQueue ==
    /\ rose0 = InZeroBucket
    /\ \A arc \in DOMAIN rose : \A band \in 0..Len(bands) :
          CountAt(arc, band) = InBucket(arc, band)

\* C2: with max_data_count = N > 0 and no age cap, once more than N distinct
\* readings have been inserted (in any timestamp order) the queue holds
\* exactly N readings, none of the discarded ones is newer than a kept one,
\* and every bucket counts exactly the kept readings that classify into it.
C2_CountCapKeepsNewest ==
    (options.max_data_count > 0 /\ options.max_data_age = 0
        /\ Cardinality(inserted) > options.max_data_count)
    => /\ Len(q) = options.max_data_count
       /\ Range(q) \subseteq inserted
       /\ \A r \in inserted \ Range(q) : \A i \in DOMAIN q : r.when <= q[i].when
       /\ CountsReflectQueue

\* C2 witness: a full window from which a reading was discarded that arrived
\* after a reading that is kept (the last insert was not the newest)
C2_Witness ==
    /\ options.max_data_count = 2 /\ options.max_data_age = 0
    /\ Cardinality(inserted) > 2
    /\ Len(q) = 2
    /\ last.op = "update" /\ last.result \in {"ok", "TypeError"}
    /\ last.arg \notin Range(q)

\* what update(d, s, w) would do to the rose in the current state
UpdateNow(d, s, w) == UpdateCore(AggState, d, s, w, options, bands, numarcs, now)

\* C4: no two queue entries carry the same (timestamp, speed, direction), and
\* inserting a reading whose normalized triple is in the queue, at whatever
\* index, is discarded as a duplicate: queue and bucket counts stay as they are.
C4_DuplicateIsNoOp ==
    /\ \A i, j \in DOMAIN q : i # j => q[i] # q[j]
    /\ \A i \in DOMAIN q :
         \A ds \in DirSpeedInputs \cup {<<q[i].dir, q[i].speed>>} :
            Normalized(ds[1], ds[2], q[i].when) = q[i]
            => LET s == UpdateNow(ds[1], ds[2], q[i].when)
               IN s.result = "dup" /\ Histogram(s) = Histogram(AggState)

\* C4 witness: an update() was discarded as the duplicate of the oldest of
\* several queued readings
C4_Witness ==
    /\ last.op = "update" /\ last.result = "dup"
    /\ Len(q) >= 2
    /\ q[1] = last.arg

\* C5: the queue is non-decreasing in timestamp.
C5_QueueSorted == \A i \in 1..(Len(q) - 1) : q[i].when <= q[i + 1].when

\* C5 witness: an update() arrived out of order and was placed between two
\* queued readings
C5_Witness ==
    /\ last.op = "update" /\ last.result = "ok"
    /\ Len(q) >= 3
    /\ q[2] = last.arg
    /\ q[2].when < q[3].when

\* a preload has been started and has not applied its last record
PreloadInProgress ==
    \E i \in DOMAIN timers : timers[i].hasA /\ timers[i].off < Len(timers[i].a)

\* C6: while a preload is in progress, a call of update() changes neither the
\* queue nor a bucket count, and leaves nothing behind to be applied later.
C6_UpdateDroppedDuringPreload ==
    [][(last'.op = "update" /\ calls' = calls + 1 /\ PreloadInProgress)
        => (q' = q /\ rose' = rose /\ rose0' = rose0 /\ timers' = timers)]_vars

\* C7: without an age cap, a preload that has applied its last chunk leaves
\* the queue and the bucket counts that inserting its readings in one
\* uninterrupted pass gives.
C7_ChunkedEqualsOnePass ==
    (last.op = "timer" /\ last.result = "done" /\ options.max_data_age = 0)
    => Histogram(last.expect[1]) = Histogram(AggState)

\* the payload has no format discriminator, or no records array
Malformed(data) == data.format \notin {"simple", "delta"} \/ ~data.hasRecords

\* C10: a preload() of a malformed payload throws to its caller, before a
\* task is scheduled, and leaves the decoding flag cleared.
C10_MalformedPayloadThrows ==
    (last.op = "preload" /\ Malformed(last.data[1]))
    => (last.result = "TypeError" /\ ~preloading)

(***************************************************************************)
(* Properties of the history protocol                                      *)
(***************************************************************************)
\* the bucket #update counts a reading with these arguments in
BucketFor(dir, speed) == BucketOf(Normalized(dir, speed, 0), bands, numarcs)

\* C3: the k-th reading a preload decodes from the server's delta payload is
\* counted in the bucket that the k-th reading of the log classifies into,
\* for every k.
C3_DeltaRoundTripKeepsBuckets ==
    \A i \in DOMAIN timers :
        LET a == timers[i].a
        IN /\ Len(a) = Len(history)
           /\ \A k \in DOMAIN a :
                 BucketFor(a[k][1], a[k][2]) = BucketFor(history[k].dir, history[k].speed)

\* C8: the timestamps at which the readings of one delta payload are applied
\* (the payload's when plus the running sum of the decoded deltas) are
\* strictly increasing in record order.
C8_AppliedTimestampsIncrease ==
    \A i \in DOMAIN timers :
        LET a == timers[i].a
        IN \A k \in 2..Len(a) : Gt(a[k][3], 0)

RECURSIVE Cursor(_, _)
\* the values the decoder's cursor target takes at the first k records
Cursor(records, k) ==
    IF k = 0 THEN <<>>
    ELSE LET before == Cursor(records, k - 1)
             prev == IF before = <<>> THEN 0 ELSE before[Len(before)]
         IN IF records[k][1] = "num" THEN Append(before, Add(prev, records[k][2]))
            ELSE before

\* some record moves the cursor to a band that is no index of bands
BandOutOfRange(data) ==
    \E tg \in Range(Cursor(data.records, Len(data.records))) :
        Ge(tg, 0) /\ tg \div numarcs >= Len(bands)

\* C9: a delta payload with a record whose band is no index of bands is
\* rejected by preload with an error, and no reading is inserted for it.
C9_BandOutOfRangeRejected ==
    /\ (last.op = "preload" /\ last.data[1].format = "delta"
            /\ last.data[1].hasRecords /\ BandOutOfRange(last.data[1]))
       => last.result = "TypeError"
    /\ \A i \in DOMAIN q : IsNum(q[i].speed)

(***************************************************************************)
(* The live path: the server logs each reading it publishes, the client    *)
(* passes the published readings to update(), and the server answers a     *)
(* history request for the same log                                        *)
(***************************************************************************)
\* (dir, speed) of the published readings: a speed on each band boundary
\* (4, 10 and MAXSPEED), zero speed
LiveReadings == {<<100, 4>>, <<350, 10>>, <<10, MAXSPEED>>, <<300, 0>>}

RECURSIVE LiveLogsOfLen(_)
\* the logs of k readings published one server step apart
LiveLogsOfLen(k) ==
    IF k = 0 THEN {<<>>}
    ELSE {Append(l, [dir |-> ds[1], speed |-> ds[2],
                     when |-> FirstWhen + (k - 1) * ServerStep]) :
             l \in LiveLogsOfLen(k - 1), ds \in LiveReadings}
LiveLogs == UNION {LiveLogsOfLen(k) : k \in 1..MaxLog}

DeltaRequest ==
    [format |-> "delta", numarcs |-> NumArcsOf(90), bands |-> LoadBands(SpeedStyles),
     when |-> NaN, id |-> NaN, nonce |-> NaN]

InitLive ==
    /\ \E count \in {1, 2} : Constructed(Options(count, 0, 90), SpeedStyles)
    /\ now = MsThreshold + 2
    /\ history \in LiveLogs
    /\ req = DeltaRequest
    /\ msg = <<>>
    /\ Started(MaxLog, FALSE, 0, 0)

\* the client receives the k-th published reading (in any order, or twice)
UpdateLogged(k) == Update(history[k].dir, history[k].speed, history[k].when)

NextLive ==
    \/ \E k \in DOMAIN history : UpdateLogged(k)
    \/ PublishHistory

SpecLive == InitLive /\ [][NextLive]_vars

\* the band the documented rule gives a speed: the number of boundaries at or
\* below it, so that a speed on bands[j] is in band j + 1
BandAbove(speed) == Cardinality({j \in DOMAIN bands : bands[j] <= speed})

OnBoundary(speed) == speed # 0 /\ \E j \in DOMAIN bands : bands[j] = speed

\* the queued readings in (arc, band) when a speed on a boundary counts above
InBucketAbove(arc, band) ==
    Cardinality({i \in DOMAIN q :
        /\ q[i].speed # 0
        /\ ArcOf(q[i].dir, numarcs) = arc
        /\ BandAbove(q[i].speed) = band})

\* C11: a non-zero speed equal to bands[j] is classified into band j + 1 by
\* the insert and by the eviction (every bucket counts the queued readings
\* that the rule puts into it, also after readings on a boundary were
\* evicted) and by the delta encoder (the bucket id it sends for a logged
\* reading on a boundary has band j + 1).
C11_BoundaryIsBandAbove ==
    /\ \A arc \in DOMAIN rose : \A band \in 0..Len(bands) :
          CountAt(arc, band) = InBucketAbove(arc, band)
    /\ msg # <<>> =>
          \A k \in DOMAIN history :
             OnBoundary(history[k].speed) =>
                Cursor(msg[1].records, Len(msg[1].records))[k]
                   = BandAbove(history[k].speed) * numarcs
                        + EncArc(history[k].dir, numarcs)

\* C11 witness: a reading on a boundary was inserted and evicted again, one
\* is still queued, and the server has encoded the log
C11_Witness ==
    /\ msg # <<>>
    /\ \E r \in inserted \ Range(q) : OnBoundary(r.speed)
    /\ \E i \in DOMAIN q : OnBoundary(q[i].speed)
    /\ last.result # "TypeError"

(***************************************************************************)
(* Properties of the classification                                        *)
(***************************************************************************)
\* directions update() is probed with: below -360, negative, within half an
\* arc of 360 (with d + 360 and d - 360 they reach from -1085 to 710)
DirProbes == {-725, -80, 350}
SpeedProbes == {2}

\* the bucket counts update(d, s) would leave in the current state
CountsAfter(d, s) ==
    LET r == UpdateNow(d, s, now)
    IN [result |-> r.result, rose |-> r.rose, rose0 |-> r.rose0]

\* C12: in every state, update(d, s), update(d + 360, s) and update(d - 360, s)
\* count the reading in the same bucket, for negative d too, and the arc of
\* every reading counted is one of 0..numarcs-1.
C12_DirectionModulo360 ==
    /\ \A d \in DirProbes, s \in SpeedProbes :
          /\ Cardinality({CountsAfter(x, s) : x \in {d - 360, d, d + 360}}) = 1
          /\ BucketOf(Normalized(d, s, now), bands, numarcs)
                = BucketOf(Normalized(d + 360, s, now), bands, numarcs)
          /\ BucketOf(Normalized(d, s, now), bands, numarcs)
                = BucketOf(Normalized(d - 360, s, now), bands, numarcs)
          /\ BucketOf(Normalized(d, s, now), bands, numarcs)[1] \in -1..(numarcs - 1)
    /\ \A i \in DOMAIN q :
          ~EqJs(q[i].speed, 0) => ArcOf(q[i].dir, numarcs) \in 0..(numarcs - 1)
    /\ DOMAIN rose = 0..(numarcs - 1)

\* C12 witness: update() was called with a negative direction and with a
\* direction that rounds to arc numarcs, and both readings are counted
C12_Witness ==
    /\ last.op = "update" /\ last.result = "ok"
    /\ \E i, j \in DOMAIN q : q[i].dir = 280 /\ q[j].dir = 350
    /\ CountAt(3, Len(bands)) >= 1
    /\ CountAt(0, 0) >= 1

\* an update() that passed a reading of speed zero to #update
ZeroSpeedInsert ==
    /\ last'.op = "update" /\ calls' = calls + 1
    /\ last'.result \in {"ok", "TypeError", "Error"}
    /\ last'.arg.speed = 0

\* C13: an update() with speed zero stores the reading with direction 0,
\* raises the count of no (arc, band) bucket, and leaves rose0 counting
\* exactly the queued readings of speed zero (the new one if it is kept, and
\* none that was evicted).
C13_ZeroSpeedInRose0 ==
    [][ZeroSpeedInsert
        => /\ last'.arg.dir = 0
           /\ \A arc \in DOMAIN rose : \A band \in 0..Len(bands) :
                 CountAt(arc, band)' <= CountAt(arc, band)
           /\ rose0' = InZeroBucket']_vars

\* C14: every queued reading of non-zero speed classifies into a band that is
\* an index of bands (0..bands.length-1), and no arc has a bucket past the
\* last band; speeds of MAXSPEED and above are in the last band.
C14_BandIsIndexOfBands ==
    /\ \A i \in DOMAIN q :
          ~EqJs(q[i].speed, 0) => BandOf(q[i].speed, bands) \in 0..(Len(bands) - 1)
    /\ \A arc \in DOMAIN rose : Len(rose[arc]) <= Len(bands)

\* rose0.count or some arc's summed count exceeds the queue length
FrequencyAboveOne == FreqOverOne(AggState, numarcs)

\* C15: an update() that reached #update ends in an error exactly when the
\* counts it leaves put a frequency above 1 (rose0.count or an arc's summed
\* count exceeds the queue length).
C15_ErrorIffFrequencyAboveOne ==
    (last.op = "update" /\ last.result # "dropped")
    => (Thrown <=> FrequencyAboveOne)

\* lines 161-166: the (dir, speed) the decoder pushes when its cursor is at tg
ReadingAt(tg) ==
    IF Ge(tg, 0)
    THEN <<ArcMidpoint(tg - (tg \div numarcs) * numarcs, numarcs),
           BandMidpoint(tg \div numarcs, bands)>>
    ELSE <<0, 0>>

\* the numeric records of a payload
Numeric(records) == SelectSeq(records, LAMBDA v : v[1] = "num")

\* C16: in a delta response the running sum of the numeric records up to the
\* k-th is the encoder's bucket id of the k-th logged reading (band * numarcs
\* + arc, -1 for zero speed), and the k-th reading preload decodes is the one
\* the decoder pushes for that bucket id.
C16_RunningSumIsBucketId ==
    (msg # <<>> /\ msg[1].format = "delta")
    => LET cursor == Cursor(msg[1].records, Len(msg[1].records))
       IN /\ Len(cursor) = Len(history)
          /\ \A k \in DOMAIN history :
                cursor[k] = EncTarget(history[k].dir, history[k].speed, req)
          /\ \A i \in DOMAIN timers :
                timers[i].off = 0 =>
                   /\ Len(timers[i].a) = Len(history)
                   /\ \A k \in DOMAIN history :
                         <<timers[i].a[k][1], timers[i].a[k][2]>>
                            = ReadingAt(EncTarget(history[k].dir, history[k].speed, req))

\* C16 witness: a log of three readings, the second of zero speed (a negative
\* then a positive delta), was encoded with a time adjustment between the
\* numeric records and decoded by preload
C16_Witness ==
    /\ Len(history) = 3 /\ history[2].speed = 0
    /\ history[1].speed # 0 /\ history[3].speed # 0
    /\ msg # <<>> /\ Len(msg[1].records) > 3
    /\ \E k \in DOMAIN msg[1].records : msg[1].records[k] = <<"num", -6>>
    /\ timers # <<>> /\ timers[1].off = 0

RECURSIVE ClockAt(_, _)
\* the virtual clock when record k of a delta payload is reached: the
\* payload's when, plus step for every numeric record and d for every
\* {when: d} before it
ClockAt(data, k) ==
    IF k = 1 THEN data.when
    ELSE Add(ClockAt(data, k - 1),
             IF data.records[k - 1][1] = "num" THEN data.step
             ELSE data.records[k - 1][2])

\* the indices of the numeric records, in order
NumericAt(records) ==
    SortedSeq({k \in DOMAIN records : records[k][1] = "num"})

RECURSIVE AppliedAt(_, _, _)
\* the timestamp a task applies the j-th triple of a with
AppliedAt(a, start, j) ==
    IF j = 0 THEN start ELSE Add(AppliedAt(a, start, j - 1), a[j][3])

\* C17: preload decodes one reading per numeric record of a delta payload and
\* none for a {when: d} record; the j-th reading is the one of the running
\* sum of the numeric records alone, and is applied at the payload's when
\* plus one step per earlier numeric record plus every earlier d; without
\* {when: d} records the readings are one step apart from the payload's when
\* on; a finished preload has passed each of them to #update.
C17_WhenRecordNudgesClockOnly ==
    (msg # <<>> /\ msg[1].format = "delta")
    => LET data == msg[1]
           at == NumericAt(data.records)
           cursor == Cursor(data.records, Len(data.records))
       IN /\ \A i \in DOMAIN timers :
                timers[i].off = 0 =>
                   LET a == timers[i].a
                   IN /\ Len(a) = Len(Numeric(data.records))
                      /\ \A j \in DOMAIN a :
                            /\ <<a[j][1], a[j][2]>> = ReadingAt(cursor[j])
                            /\ AppliedAt(a, timers[i].when, j) = ClockAt(data, at[j])
                      /\ Len(at) = Len(data.records) =>
                            \A j \in DOMAIN a :
                               a[j][3] = IF j = 1 THEN 0 ELSE data.step
          /\ (last.op = "timer" /\ last.result = "done")
                => /\ Len(q) = Len(at)
                   /\ \A j \in DOMAIN at :
                         \E i \in DOMAIN q : q[i].when = ClockAt(data, at[j])

\* C17 witness: a payload with a {when: d} record between numeric records was
\* decoded and every reading of it applied
C17_Witness ==
    /\ msg # <<>> /\ msg[1].format = "delta"
    /\ \E k \in 2..(Len(msg[1].records) - 1) : msg[1].records[k][1] = "when"
    /\ last.op = "timer" /\ last.result = "done"
    /\ Len(q) = 3

(***************************************************************************)
(* History requests: any request, answered for a short log and preloaded   *)
(***************************************************************************)
\* a field a request does not carry is undefined (NaN); id and nonce may be
\* present with the value 0
Requests ==
    [format : {"delta", "none"},
     numarcs : {NaN, NumArcsOf(90)},
     bands : {<<>>, LoadBands(SpeedStyles)},
     when : {NaN, FirstWhen + 500},
     id : {NaN, 0, 7},
     nonce : {NaN, 0}]

\* (dir, speed) of the logged readings: a speed on a boundary, zero speed
RequestReadings == {<<100, 4>>, <<300, 0>>}

RECURSIVE RequestLogsOfLen(_)
\* the logs of k readings one server step apart
RequestLogsOfLen(k) ==
    IF k = 0 THEN {<<>>}
    ELSE {Append(l, [dir |-> ds[1], speed |-> ds[2],
                     when |-> FirstWhen + (k - 1) * ServerStep]) :
             l \in RequestLogsOfLen(k - 1), ds \in RequestReadings}
RequestLogs == UNION {RequestLogsOfLen(k) : k \in 1..MaxLog}

InitRequest ==
    /\ Constructed(Options(0, 0, 90), SpeedStyles)
    /\ now = MsThreshold + 2
    /\ history \in RequestLogs
    /\ req \in Requests
    /\ msg = <<>>
    /\ Started(MaxLog, FALSE, 0, 0)

SpecRequest == InitRequest /\ [][NextCodec]_vars

\* C18: a response carries the id and the nonce of its request, whatever
\* their values (0 too), in either format.
C18_IdAndNonceEchoed ==
    msg # <<>> =>
        /\ IsNum(req.id) => msg[1].id = req.id
        /\ IsNum(req.nonce) => msg[1].nonce = req.nonce

\* C19: a request with numarcs > 0 and a non-empty bands array is answered in
\* delta format, a request with neither in simple format, whatever else the
\* request carries.
C19_FormatFollowsNumarcsAndBands ==
    msg # <<>> =>
        /\ (Gt(req.numarcs, 0) /\ Len(req.bands) > 0) => msg[1].format = "delta"
        /\ (~IsNum(req.numarcs) /\ Len(req.bands) = 0) => msg[1].format = "simple"

\* C20: for a simple response, the triples preload reads carry the logged
\* directions and speeds verbatim, the payload's when plus the running sum of
\* the deltas is each reading's logged timestamp, and a finished preload has
\* inserted exactly the logged readings.
C20_SimpleRoundTripExact ==
    (msg # <<>> /\ msg[1].format = "simple") =>
        /\ \A i \in DOMAIN timers :
              timers[i].off = 0 =>
                 LET a == timers[i].a
                 IN /\ Len(a) = Len(history)
                    /\ \A k \in DOMAIN a :
                          /\ a[k][1] = history[k].dir
                          /\ a[k][2] = history[k].speed
                          /\ AppliedAt(a, timers[i].when, k) = history[k].when
        /\ (last.op = "timer" /\ last.result = "done")
              => Range(q) = {Normalized(h.dir, h.speed, h.when) : h \in Range(history)}

(***************************************************************************)
(* Properties of update(), the window and the construction                 *)
(***************************************************************************)
\* C21: update() returns normally in every state and under every setting of
\* the caps; no call ends in a thrown error.
C21_UpdateReturnsNormally == last.op = "update" => ~Thrown

\* C22: with max_data_age = A > 0 and no count cap, after an insert that
\* completed, every reading that was inserted and is less than A seconds old
\* is still in the queue.
C22_AgeCapInSeconds ==
    (last.op = "update" /\ last.result = "ok"
        /\ options.max_data_age > 0 /\ options.max_data_count = 0)
    => \A r \in inserted :
          Lt(Sub(now, r.when), options.max_data_age * MsPerSecond)
             => r \in Range(q)

(***************************************************************************)
(* update() with timestamps in seconds and in milliseconds                 *)
(***************************************************************************)
\* the smallest w whose 1000*w reaches the threshold (1e9 in the source)
LeastScaledOnce == MsThreshold \div MsPerSecond
\* timestamps passed to update(): a small seconds value, a seconds value w
\* with 1000*w above the threshold, and that 1000*w itself
WhenProbes == {1, LeastScaledOnce + 1, (LeastScaledOnce + 1) * MsPerSecond}
WhenReadings == {<<10, 0>>, <<350, 2>>}

NextWhen ==
    \/ \E ds \in WhenReadings, w \in WhenProbes : Update(ds[1], ds[2], w)
    \/ Tick

SpecWhen == Init /\ [][NextWhen]_vars

\* the aggregator after the step, with how the operation ended
AggAfter ==
    [q |-> q', rose |-> rose', rose0 |-> rose0', freqsteps |-> freqsteps',
     result |-> last'.result]

\* what update(dir, speed, when) makes of the aggregator in the current state
UpdateEffect(dir, speed, when) ==
    UpdateCore(AggState, dir, speed, WhenOf(when), options, bands, numarcs, now)

\* update(d, s, w) is the step taken, and it has the effect of update(d, s, 1000*w)
SameAsMilliseconds(ds, w) ==
    (~preloading /\ Update(ds[1], ds[2], w))
       => AggAfter = UpdateEffect(ds[1], ds[2], MsPerSecond * w)

\* C23: update() stores a timestamp below the threshold multiplied by 1000
\* and one at or above it unchanged; update(d, s, w) with w below the
\* threshold and 1000*w at or above it has the same effect, duplicates
\* included, as update(d, s, 1000*w).
C23_SecondsScaledOnce ==
    [][\A ds \in WhenReadings, w \in WhenProbes :
          /\ (~preloading /\ Update(ds[1], ds[2], w))
                => last'.arg.when = IF w < MsThreshold THEN MsPerSecond * w ELSE w
          /\ (LeastScaledOnce <= w /\ w < MsThreshold) => SameAsMilliseconds(ds, w)]_vars

\* a reading given in seconds is found to duplicate the queued reading with
\* the same timestamp in milliseconds (or the other way round)
C23_Witness ==
    /\ last.op = "update"
    /\ last.result = "dup"
    /\ last.arg.when = (LeastScaledOnce + 1) * MsPerSecond
    /\ \E i \in DOMAIN q : q[i] = last.arg

\* C23 as stated: update(d, s, w) has the same effect as update(d, s, 1000*w)
\* for every w below the threshold.
C23_SecondsSameAsMs ==
    [][\A ds \in WhenReadings, w \in WhenProbes :
          w < MsThreshold => SameAsMilliseconds(ds, w)]_vars

(***************************************************************************)
(* Roses of several arc widths                                             *)
(***************************************************************************)
\* options.arc as requested: not a divisor of 360, a divisor, more than 360
ArcRequests == {17, 20, 400}
\* directions on either side of half an arc of 360/22 degrees, and one that
\* wraps for wide arcs
ArcReadings == {<<8, 2>>, <<9, 2>>, <<350, 12>>}

InitArcs ==
    /\ \E arc \in ArcRequests : Constructed(Options(0, 0, arc), SpeedStyles)
    /\ now = MsThreshold + 2
    /\ history = <<>>
    /\ req = NoRequest
    /\ msg = <<>>
    /\ Started(MaxLog, FALSE, 0, 0)

NextArcs ==
    \/ \E ds \in ArcReadings, w \in {0, MsThreshold + 1} : Update(ds[1], ds[2], w)
    \/ Tick

SpecArcs == InitArcs /\ [][NextArcs]_vars

\* the arc whose centre a * (360 / n) is within half an arc width 360 / n of
\* dir (0 <= dir < 360), the last half arc below 360 belonging to arc 0
ArcByWidth(dir, n) ==
    CHOOSE a \in 0..(n - 1) :
       \E c \in {a, a + n} :
          (2 * c - 1) * 360 <= 2 * dir * n /\ 2 * dir * n < (2 * c + 1) * 360

\* the readings counted in an arc
ArcTotal(arc) == SumSeq(rose[arc])

\* C24: for a requested arc width r > 0 the rose has ceil(360 / r) arcs (the
\* least n with n * r >= 360), and the arc width in use is 360 / n: every
\* arc counts the queued readings within half of 360 / n of its centre.
C24_ArcsTileTheCircle ==
    options.arc > 0 =>
       LET n == Cardinality(DOMAIN rose)
       IN /\ DOMAIN rose = 0..(n - 1)
          /\ n >= 1
          /\ n * options.arc >= 360
          /\ (n - 1) * options.arc < 360
          /\ \A arc \in DOMAIN rose :
                ArcTotal(arc) =
                   Cardinality({i \in DOMAIN q :
                       ~EqJs(q[i].speed, 0) /\ ArcByWidth(q[i].dir, n) = arc})

\* a rose of 22 arcs for a requested width of 17 holds readings in arcs 0 and 1
C24_Witness ==
    /\ options.arc = 17
    /\ Cardinality(DOMAIN rose) = 22
    /\ ArcTotal(0) > 0
    /\ ArcTotal(1) > 0

(***************************************************************************)
(* The server reading lines                                                *)
(***************************************************************************)
\* the records of a history file, at most as many as the log is long
FileLog(k) ==
    [i \in 1..k |-> [dir |-> 100, speed |-> 4, when |-> FirstWhen + (i - 1) * ServerStep]]
\* (angle, speed) of the sentences: a wind, and two calms
LineReadings == {<<100, 4>>, <<200, 0>>, <<-60, 0>>}
\* ms between two events: the next millisecond, past the fallback period of
\* --max-frequency, past the period of the history saves
LineGaps == {1, MaxFrequencyFallback + 1, SaveEvery + 1}

\* lines 13-104: the arguments are read and the history file, if any, loaded
InitServer ==
    /\ Constructed(Options(0, 0, 90), SpeedStyles)
    /\ now = FirstWhen + MaxLog * ServerStep
    /\ req = NoRequest
    /\ msg = <<>>
    /\ \E size \in {0, 2}, all \in BOOLEAN, maxf \in {0, MaxFrequencyFallback} :
          /\ Started(size, all, 0, maxf)
          /\ history \in IF size > 0 THEN {FileLog(k) : k \in 0..MaxLog} ELSE {<<>>}

NextServer == \E dt \in LineGaps, r \in LineReadings : ProcessLine(dt, r[1], r[2])

SpecServer == InitServer /\ [][NextServer]_vars

\* the sentence repeats the message published last
Unchanged(r) ==
    /\ EqJs(r[2], published.speed)
    /\ (EqJs(LineDir(r[1]), published.dir) \/ r[2] = 0)

\* C25: without --all and without --max-frequency, a reading that repeats
\* the speed and the direction published last (any direction for speed 0)
\* within 5 minutes of the last publish is not published and not logged.
C25_UnchangedNotPublished ==
    [][\A dt \in LineGaps, r \in LineReadings :
          (/\ ProcessLine(dt, r[1], r[2])
           /\ ~flag_publishalways /\ maxfrequency = 0
           /\ Unchanged(r)
           /\ now + dt - lastpublish <= MaxFrequencyFallback)
          => UNCHANGED <<history, published, lastpublish>>]_vars

\* C26: with history enabled with size H the log never holds more than H
\* records, from the load of the history file on.
C26_LogWithinSize == historysize > 0 => Len(history) <= historysize

\* C27: two consecutive history saves triggered by readings are at least 60
\* minutes apart.
C27_SavesAnHourApart ==
    \A i \in 1..(Len(saves) - 1) : saves[i + 1] - saves[i] >= SaveEvery

(***************************************************************************)
(* The animation                                                           *)
(***************************************************************************)
\* update() arguments: a calm and a wind, stamped now or, a second apart,
\* long before the lagged now
FrameReadings == {<<10, 0>>, <<350, 2>>}
FrameWhens == {0, 1, 2}

NextAnimate ==
    \/ \E ds \in FrameReadings, w \in FrameWhens : Update(ds[1], ds[2], w)
    \/ Animate
    \/ Tick

SpecAnimate == Init /\ [][NextAnimate]_vars

\* C28: once update() has started the animation, an animation callback that
\* finds no qualifying sample (or raises) leaves another callback pending for
\* the next frame.
C28_AnimationKeepsRunning == last.op = "animate" => frames >= 1

(***************************************************************************)
(* Bucket ids in the delta format                                          *)
(***************************************************************************)
\* the bucket a cursor value denotes, as <<arc, band>>
Denoted(tg) == <<tg % numarcs, tg \div numarcs>>

\* C29: the reading the decoder reconstructs for a cursor value target >= 0
\* (whose band is an index of bands) is counted by #update in the bucket
\* arc = target mod numarcs, band = floor(target / numarcs).
C29_DecodedReadingInDenotedBucket ==
    (msg # <<>> /\ msg[1].format = "delta" /\ timers # <<>>)
    => \A tg \in Range(Cursor(msg[1].records, Len(msg[1].records))) :
          (Ge(tg, 0) /\ tg \div numarcs < Len(bands))
             => BucketFor(ReadingAt(tg)[1], ReadingAt(tg)[2]) = Denoted(tg)

\* C30: for a logged reading with a direction in [0, 360) and a non-zero
\* speed the encoder's arc is in 0..numarcs-1, and the bucket id emitted for
\* it decodes to that arc and to the encoder's band.
C30_EncodedArcInRange ==
    (msg # <<>> /\ msg[1].format = "delta")
    => LET cursor == Cursor(msg[1].records, Len(msg[1].records))
       IN \A k \in DOMAIN history :
             (/\ k <= Len(cursor)
              /\ ~EqJs(history[k].speed, 0)
              /\ history[k].dir >= 0 /\ history[k].dir < 360)
             => /\ EncArc(history[k].dir, req.numarcs) \in 0..(req.numarcs - 1)
                /\ cursor[k] % req.numarcs = EncArc(history[k].dir, req.numarcs)
                /\ cursor[k] \div req.numarcs = EncBand(history[k].speed, req.bands)

(***************************************************************************)
(* The bucket counts, the frequency scale and the animation samples        *)
(***************************************************************************)
\* C31: in every state each bucket's count (every rose[arc][band] and rose0)
\* is the number of queued readings that classify into the bucket, and so is
\* never negative.
C31_CountsAreQueuedReadings ==
    /\ CountsReflectQueue
    /\ rose0 >= 0
    /\ \A arc \in DOMAIN rose : \A band \in 0..Len(bands) : CountAt(arc, band) >= 0

\* line 508: the lagged now of #animate
LaggedNow == now - options.lag

\* C32: when #animate draws, p0 is the latest queued reading stamped at or
\* before the lagged now, p1 is stamped after the lagged now, and the
\* interpolation parameter (now - p0.when) / (p1.when - p0.when) is in [0, 1].
C32_SamplesBracketLaggedNow ==
    (last.op = "animate" /\ last.result = "drawn")
    => LET i == SampleAt(LaggedNow)
           p0 == q[i]
           p1 == q[i + 1]
       IN /\ p0 = last.arg
          /\ p0.when <= LaggedNow
          /\ \A j \in DOMAIN q : q[j].when <= LaggedNow => q[j].when <= p0.when
          /\ p1.when > LaggedNow
          /\ p1.when - p0.when > 0
          /\ LaggedNow - p0.when <= p1.when - p0.when

RECURSIVE WhenUpTo(_, _, _, _)
\* the timestamp of record k of a payload whose task starts at record off + 1
\* with the clock at when: every record's delta is added in turn
WhenUpTo(a, when, off, k) ==
    IF k <= off THEN when ELSE Add(WhenUpTo(a, when, off, k - 1), a[k][3])

\* the readings of records off + 1 .. off + n, each stamped by the deltas
\* before it in payload order
RecordsFrom(tk, n) ==
    {Normalized(tk.a[k][1], tk.a[k][2], WhenUpTo(tk.a, tk.when, tk.off, k)) :
        k \in (tk.off + 1)..(tk.off + n)}

\* the task timers[i] runs as payload order and chunking require
ChunkInOrder(i) ==
    LET tk == timers[i]
        ran == last'.data[1]
    IN /\ ran.off = tk.off
       /\ ran.called <= ChunkReadings
       /\ tk.off + ran.called <= Len(tk.a)
       /\ inserted' = inserted \cup RecordsFrom(tk, ran.called)
       /\ last'.result = "more"
             => /\ ran.called = ChunkReadings
                /\ Len(timers') = Len(timers)
                /\ timers'[Len(timers')].a = tk.a
                /\ timers'[Len(timers')].off = tk.off + ran.called
                /\ timers'[Len(timers')].when = WhenUpTo(tk.a, tk.when, tk.off,
                                                         tk.off + ran.called)
       /\ last'.result = "done" => tk.off + ran.called = Len(tk.a)
       /\ last'.result # "more" => Len(timers') = Len(timers) - 1

\* C33: a task of a preload applies at most 500 readings (ChunkReadings in
\* the model), the records next in payload order, each stamped by the deltas
\* before it; the next chunk is scheduled only when the task has applied all
\* its readings, and starts at the record after them.
C33_ChunksInPayloadOrder ==
    [][\A i \in DOMAIN timers :
          (timers[i].hasA /\ RunTimer(i)) => ChunkInOrder(i)]_vars

\* the second chunk of a payload of three readings has run and ended the preload
C33_Witness ==
    /\ last.op = "timer" /\ last.result = "done"
    /\ last.data # <<>>
    /\ last.data[1].off = ChunkReadings
    /\ last.data[1].called >= 1

(***************************************************************************)
(* The frequency scale under freq_min and freq_max                         *)
(***************************************************************************)
\* freq_max and freq_min as given: the defaults, and a scale from 10 to 50
FreqMaxGiven == {FreqMaxDefault, 50}
FreqMinGiven == {FreqMinDefault, 10}
FreqReadings == {<<10, 0>>, <<350, 2>>, <<100, 4>>}

InitFreq ==
    /\ \E fmax \in FreqMaxGiven, fmin \in FreqMinGiven :
          Constructed([Options(0, 0, 90) EXCEPT !.freq_max = fmax, !.freq_min = fmin],
                      SpeedStyles)
    /\ now = MsThreshold + 2
    /\ history = <<>>
    /\ req = NoRequest
    /\ msg = <<>>
    /\ Started(MaxLog, FALSE, 0, 0)

NextFreq ==
    \/ \E ds \in FreqReadings, w \in {0, MsThreshold + 1} : Update(ds[1], ds[2], w)
    \/ Tick

SpecFreq == InitFreq /\ [][NextFreq]_vars

\* the outermost ring drawn, in percent (line 384 for i = freqsteps)
OuterRing == freqsteps * options.freq_step

\* C34: after an insert the outermost scale ring (freqsteps * freq_step
\* percent) is at most one step above freq_max percent and not below freq_min
\* percent.
C34_ScaleWithinFreqMinMax ==
    (last.op = "update" /\ last.result = "ok")
    => /\ OuterRing <= options.freq_max + options.freq_step
       /\ OuterRing >= options.freq_min

(***************************************************************************)
(* Pending animation callbacks                                             *)
(***************************************************************************)
\* C37: at most one animation callback of a rose is pending at any time,
\* however many update() calls are made.
C37_OneAnimationPending == frames <= 1

(***************************************************************************)
(* Timestamps in the delta format                                          *)
(***************************************************************************)
\* the timestamp the decoder reconstructs for record k of the task tk
Reconstructed(tk, k) == WhenUpTo(tk.a, tk.when, 0, k)

\* consecutive logged readings are exactly one step apart
StepApart(log) == \A k \in 2..Len(log) : log[k].when - log[k - 1].when = ServerStep

\* C36: for a time-ordered log encoded in delta format without a request
\* when, the timestamp the decoder reconstructs for the k-th reading is less
\* than one step (1000 ms) away from the reading's logged timestamp, for
\* every k; and a log whose readings are exactly one step apart is encoded
\* with numeric records only.
C36_DecodedTimestampsWithinStep ==
    (msg # <<>> /\ msg[1].format = "delta" /\ Falsy(req.when))
    => /\ StepApart(history)
            => \A j \in DOMAIN msg[1].records : msg[1].records[j][1] = "num"
       /\ \A i \in DOMAIN timers :
             timers[i].off = 0
             => /\ Len(timers[i].a) = Len(history)
                /\ \A k \in DOMAIN history :
                      LET w == Reconstructed(timers[i], k)
                      IN /\ IsNum(w)
                         /\ w - history[k].when < ServerStep
                         /\ history[k].when - w < ServerStep

\* a log of three readings, the second one 600 ms after the first and so
\* reconstructed 400 ms late, the third one brought back by a {when: d} record
C36_Witness ==
    /\ msg # <<>> /\ msg[1].format = "delta" /\ Falsy(req.when)
    /\ Len(history) = 3
    /\ history[2].when - history[1].when = 600
    /\ \E j \in DOMAIN msg[1].records : msg[1].records[j][1] = "when"
    /\ timers # <<>> /\ timers[1].off = 0
    /\ Reconstructed(timers[1], 2) = history[2].when + 400
    /\ Reconstructed(timers[1], 3) = history[3].when

(***************************************************************************)
(* History requests that carry a when                                      *)
(***************************************************************************)
\* the indices of the logged readings newer than the request's when
Newer == {k \in DOMAIN history : Gt(history[k].when, req.when)}

\* the number of readings a response encodes
Encoded(data) ==
    IF data.format = "delta"
    THEN Cardinality({j \in DOMAIN data.records : data.records[j][1] = "num"})
    ELSE Len(data.records)

\* every record value and every {when: d} adjustment is a number
AllFinite(data) ==
    \A j \in DOMAIN data.records :
        IF data.format = "delta" THEN IsNum(data.records[j][2])
        ELSE \A f \in 1..3 : IsNum(data.records[j][f])

\* C38: the response to a request with when = T, delta or simple, encodes
\* only the readings with a timestamp greater than T, its when is the
\* timestamp of the first encoded reading, and every record value and
\* {when: d} adjustment in it is a finite number.
C38_ResponseOnlyNewerThanWhen ==
    (msg # <<>> /\ IsNum(req.when))
    => /\ Encoded(msg[1]) = Cardinality(Newer)
       /\ Newer # {}
            => \E k \in Newer : /\ \A j \in Newer : k <= j
                                /\ msg[1].when = history[k].when
       /\ AllFinite(msg[1])

(***************************************************************************)
(* Progress of a preload                                                   *)
(***************************************************************************)
\* a pending setTimeout callback runs
TimerRuns == \E i \in DOMAIN timers : RunTimer(i)

\* The host runs every pending setTimeout callback: weak fairness of TimerRuns.
\* RunTimer(i) has no guard and always changes timers, so <<TimerRuns>>_vars is
\* enabled exactly when timers # <<>>, and the fairness condition is written
\* with that state predicate in place of ENABLED <<TimerRuns>>_vars.
TimersFair == ([]<>(timers = <<>>)) \/ ([]<><<TimerRuns>>_vars)

\* the wall clock keeps advancing, and the host runs the pending callbacks
SpecTimersRun == Spec /\ WF_vars(Tick) /\ TimersFair

\* C35: whenever the decoding flag is set, a state is reached in which it is
\* cleared and update() is accepted again.
C35_PreloadEventuallyEnds == preloading ~> ~preloading

====
